---------------------------- MODULE Spec2Model ----------------------------
(***************************************************************************)
(* Verification model of the service-discovery listener layer              *)
(* (package listeners: Register / ServiceListenerFactories /               *)
(* ServiceListener) and of the GUI helper formatTitle (cmd/gui/render.go). *)
(*                                                                         *)
(* The specifications share the variables below:                           *)
(*   Spec              sequential calls of Register, factory invocation    *)
(*   SpecConc          goroutines calling Register, and a reader           *)
(*   SpecListener      the ServiceListener lifecycle and event channels    *)
(*   FairSpecListener  SpecListener with the scheduler's fairness          *)
(*   SpecTitle         the camel-case splitting loop of formatTitle        *)
(***************************************************************************)
EXTENDS Integers, Sequences, FiniteSets, TLC

VARIABLES
    ServiceListenerFactories, \* the registry map: name -> factory (nil included)
    lastOp,                   \* the call performed by the last step
    logs,                     \* log levels written by the last Register call
    lastFactory,              \* history: last non-nil factory passed per name
    keysBefore,               \* history: the registry's keys before the last call
    invocations,              \* number of factory invocations so far
    panicked,                 \* a nil factory was invoked (nil func call)
    \* --- goroutines that call Register, and one that ranges over the map ---
    pc,                       \* position of each goroutine
    arg,                      \* the (name, factory) each registering goroutine passes
    registered,               \* the local `registered` of each Register call
    access,                   \* the map access a goroutine is inside: none/read/write
    dirty,                    \* a conflicting access overlapped the current one
    seen,                     \* the names the ranging goroutine collected
    crashed,                  \* the runtime aborted: fatal error, concurrent map access
    \* --- ServiceListener instances and the two event channels ---
    lstate,                   \* constructed / listening / stopped, per listener
    wpc,                      \* position of each listener's discovery worker
    cache,                    \* each listener's cache of running services
    pending,                  \* the event a worker is about to push
    stopReq,                  \* Stop was called and has not returned yet
    starts,                   \* how often a discovery worker was started
    rejected,                 \* the last Listen call refused: <<listener, its state>>
    newSvc,                   \* the add channel passed to Listen
    delSvc,                   \* the delete channel passed to Listen
    draining,                 \* the consumer still receives from the channels
    pushed,                   \* history: every event pushed, in push order
    \* --- one call of formatTitle ---
    title,                    \* the argument, a string of bytes
    s,                        \* the loop variable s: what is left to split
    l,                        \* the loop variable l: the length of the next word
    words,                    \* the slice words
    tpc,                      \* position inside formatTitle
    result                    \* the string returned

regVars == <<ServiceListenerFactories, lastOp, logs, lastFactory, keysBefore,
             invocations, panicked>>

concVars == <<pc, arg, registered, access, dirty, seen, crashed>>

lsnVars == <<lstate, wpc, cache, pending, stopReq, starts, rejected,
             newSvc, delSvc, draining, pushed>>

titleVars == <<title, s, l, words, tpc, result>>

vars == <<regVars, concVars, lsnVars, titleVars>>

---------------------------------------------------------------------------
(* Bounds *)

MaxInvocations == 2

NumRegistrars == 2

\* Capacity of the add and of the delete channel.
ChanCap == 1

\* Length of the recorded event history.
MaxEvents == 3

\* Cap of the worker-start counter.
MaxStarts == 2

\* Longest title, in bytes.
MaxLen == 4

---------------------------------------------------------------------------
(* The registry: src/unnamed/part_000 *)

\* Listener names used by callers of Register.
Names == {"docker", "kubelet"}

\* Non-nil ServiceListenerFactory values.
Factories == {"F1", "F2"}

\* The nil func value of type ServiceListenerFactory.
NilFactory == "nil"

FactoryValues == Factories \cup {NilFactory}

NoFactory == "none"

\* make(map[string]ServiceListenerFactory): the empty map.
EmptyRegistry == [n \in {} |-> NilFactory]

\* m[name] = factory on a Go map: the key is created or overwritten.
MapStore(m, name, factory) ==
    [n \in (DOMAIN m) \cup {name} |-> IF n = name THEN factory ELSE m[n]]

\* Variant of RegisterResult: a nil factory deletes the entry of name.
RegisterResultDeleteNil(m, name, factory) ==
    IF factory = NilFactory
    THEN [n \in (DOMAIN m) \ {name} |-> m[n]]
    ELSE MapStore(m, name, factory)

\* Variant of RegisterResult: the map is re-made before the store.
RegisterResultRemake(m, name, factory) ==
    MapStore(EmptyRegistry, name, factory)

\* The map Register leaves behind: line 60 runs on every path, since neither
\* the nil check (53-55) nor the duplicate check (56-59) returns.
RegisterResult(m, name, factory) == MapStore(m, name, factory)

\* The log lines of one Register call: Warnf for a nil factory (54), Errorf
\* for a name that is already a key (58).
RegisterLogs(m, name, factory) ==
    (IF factory = NilFactory THEN <<"warn">> ELSE <<>>)
      \o (IF name \in DOMAIN m THEN <<"error">> ELSE <<>>)

Register(name, factory) ==
    /\ ~panicked
    /\ ServiceListenerFactories' =
           RegisterResult(ServiceListenerFactories, name, factory)
    /\ logs' = RegisterLogs(ServiceListenerFactories, name, factory)
    /\ lastOp' = [op |-> "Register", name |-> name, factory |-> factory]
    /\ lastFactory' = IF factory = NilFactory
                      THEN lastFactory
                      ELSE [lastFactory EXCEPT ![name] = factory]
    /\ keysBefore' = DOMAIN ServiceListenerFactories
    /\ UNCHANGED <<invocations, panicked>>
    /\ UNCHANGED <<concVars, lsnVars, titleVars>>

\* The orchestrator looks a name up in the registry and calls its factory.
\* Calling a nil func value panics.
Construct(name) ==
    /\ ~panicked
    /\ name \in DOMAIN ServiceListenerFactories
    /\ invocations < MaxInvocations
    /\ IF ServiceListenerFactories[name] = NilFactory
       THEN panicked' = TRUE /\ UNCHANGED invocations
       ELSE invocations' = invocations + 1 /\ UNCHANGED panicked
    /\ lastOp' = [op |-> "Construct", name |-> name,
                  factory |-> ServiceListenerFactories[name]]
    /\ keysBefore' = DOMAIN ServiceListenerFactories
    /\ UNCHANGED <<ServiceListenerFactories, logs, lastFactory>>
    /\ UNCHANGED <<concVars, lsnVars, titleVars>>

InitRegistry ==
    /\ ServiceListenerFactories = EmptyRegistry
    /\ lastOp = [op |-> "none", name |-> "", factory |-> NilFactory]
    /\ logs = <<>>
    /\ lastFactory = [n \in Names |-> NoFactory]
    /\ keysBefore = {}
    /\ invocations = 0
    /\ panicked = FALSE

\* No goroutine other than the caller exists.
IdleConc ==
    /\ pc = [p \in {} |-> "done"]
    /\ arg = [p \in {} |-> <<>>]
    /\ registered = [p \in {} |-> FALSE]
    /\ access = [p \in {} |-> "none"]
    /\ dirty = [p \in {} |-> FALSE]
    /\ seen = {}
    /\ crashed = FALSE

\* No listener was constructed.
IdleListeners ==
    /\ lstate = [lsn \in {} |-> "constructed"]
    /\ wpc = [lsn \in {} |-> "none"]
    /\ cache = [lsn \in {} |-> {}]
    /\ pending = [lsn \in {} |-> <<>>]
    /\ stopReq = [lsn \in {} |-> FALSE]
    /\ starts = [lsn \in {} |-> 0]
    /\ rejected = <<>>
    /\ newSvc = <<>>
    /\ delSvc = <<>>
    /\ draining = TRUE
    /\ pushed = <<>>

\* formatTitle is not running.
IdleTitle ==
    /\ title = <<>>
    /\ s = <<>>
    /\ l = 0
    /\ words = <<>>
    /\ tpc = "idle"
    /\ result = <<>>

Init == InitRegistry /\ IdleConc /\ IdleListeners /\ IdleTitle

Next ==
    \/ \E name \in Names, factory \in FactoryValues : Register(name, factory)
    \/ \E name \in Names : Construct(name)

Spec == Init /\ [][Next]_vars

---------------------------------------------------------------------------
(* Register called from several goroutines: src/unnamed/part_000, 49-61.   *)
(* The map is a plain Go map and Register takes no lock, so each map       *)
(* access (the lookup of line 56, the store of line 60, a range over the   *)
(* map) is a step that begins and a step that ends, and accesses of        *)
(* different goroutines may overlap.                                       *)

Registrars == 1..NumRegistrars

\* What a step inside a concurrent Register call leaves alone.
callFrame == <<arg, lastOp, logs, lastFactory, keysBefore, invocations, panicked,
               lsnVars, titleVars>>

\* The goroutine that iterates over ServiceListenerFactories.
Ranger == 0

Goroutines == Registrars \cup {Ranger}

\* Two accesses conflict when at least one of them writes.
Conflict(a, b) == a # "none" /\ b # "none" /\ (a = "write" \/ b = "write")

\* Goroutine p begins an access of the given kind: it and every goroutine
\* inside a conflicting access are marked as overlapped.
BeginAccess(p, kind) ==
    /\ access' = [access EXCEPT ![p] = kind]
    /\ dirty' = [q \in Goroutines |->
                    IF q = p
                    THEN \E r \in Goroutines \ {p} : Conflict(kind, access[r])
                    ELSE dirty[q] \/ Conflict(kind, access[q])]

EndAccess(p) ==
    /\ access' = [access EXCEPT ![p] = "none"]
    /\ dirty' = [dirty EXCEPT ![p] = FALSE]

\* Lines 53-55: the nil check logs and falls through.
NilCheck(p) ==
    /\ ~crashed
    /\ pc[p] = "nilcheck"
    /\ pc' = [pc EXCEPT ![p] = "lookup"]
    /\ UNCHANGED <<ServiceListenerFactories, registered, access, dirty, seen, crashed>>
    /\ UNCHANGED callFrame

\* Line 56: _, registered := ServiceListenerFactories[name] begins.
LookupBegin(p) ==
    /\ ~crashed
    /\ pc[p] = "lookup"
    /\ pc' = [pc EXCEPT ![p] = "looking"]
    /\ BeginAccess(p, "read")
    /\ UNCHANGED <<ServiceListenerFactories, registered, seen, crashed>>
    /\ UNCHANGED callFrame

\* Line 56 ends. A lookup that overlapped a store is a data race: the runtime
\* may abort (concurrent map read and map write) or return either answer.
LookupEnd(p) ==
    /\ ~crashed
    /\ pc[p] = "looking"
    /\ EndAccess(p)
    /\ \/ /\ registered' = [registered EXCEPT
                                ![p] = arg[p][1] \in DOMAIN ServiceListenerFactories]
          /\ pc' = [pc EXCEPT ![p] = "store"]
          /\ UNCHANGED crashed
       \/ /\ dirty[p]
          /\ \E b \in BOOLEAN : registered' = [registered EXCEPT ![p] = b]
          /\ pc' = [pc EXCEPT ![p] = "store"]
          /\ UNCHANGED crashed
       \/ /\ dirty[p]
          /\ crashed' = TRUE
          /\ UNCHANGED <<pc, registered>>
    /\ UNCHANGED <<ServiceListenerFactories, seen>>
    /\ UNCHANGED callFrame

\* Line 60: ServiceListenerFactories[name] = factory begins.
StoreBegin(p) ==
    /\ ~crashed
    /\ pc[p] = "store"
    /\ pc' = [pc EXCEPT ![p] = "storing"]
    /\ BeginAccess(p, "write")
    /\ UNCHANGED <<ServiceListenerFactories, registered, seen, crashed>>
    /\ UNCHANGED callFrame

\* Line 60 ends. A store that overlapped another access is a data race: the
\* runtime may abort (concurrent map writes), the store may take effect, or
\* it may be lost.
StoreEnd(p) ==
    /\ ~crashed
    /\ pc[p] = "storing"
    /\ EndAccess(p)
    /\ \/ /\ ServiceListenerFactories' =
                 RegisterResult(ServiceListenerFactories, arg[p][1], arg[p][2])
          /\ pc' = [pc EXCEPT ![p] = "done"]
          /\ UNCHANGED crashed
       \/ /\ dirty[p]
          /\ pc' = [pc EXCEPT ![p] = "done"]
          /\ UNCHANGED <<ServiceListenerFactories, crashed>>
       \/ /\ dirty[p]
          /\ crashed' = TRUE
          /\ UNCHANGED <<ServiceListenerFactories, pc>>
    /\ UNCHANGED <<registered, seen>>
    /\ UNCHANGED callFrame

\* for name := range ServiceListenerFactories begins.
RangeBegin ==
    /\ ~crashed
    /\ pc[Ranger] = "idle"
    /\ pc' = [pc EXCEPT ![Ranger] = "ranging"]
    /\ BeginAccess(Ranger, "read")
    /\ UNCHANGED <<ServiceListenerFactories, registered, seen, crashed>>
    /\ UNCHANGED callFrame

\* The range ends. A range that overlapped a store may abort or yield any
\* set of names.
RangeEnd ==
    /\ ~crashed
    /\ pc[Ranger] = "ranging"
    /\ EndAccess(Ranger)
    /\ \/ /\ seen' = DOMAIN ServiceListenerFactories
          /\ pc' = [pc EXCEPT ![Ranger] = "done"]
          /\ UNCHANGED crashed
       \/ /\ dirty[Ranger]
          /\ \E names \in SUBSET Names : seen' = names
          /\ pc' = [pc EXCEPT ![Ranger] = "done"]
          /\ UNCHANGED crashed
       \/ /\ dirty[Ranger]
          /\ crashed' = TRUE
          /\ UNCHANGED <<pc, seen>>
    /\ UNCHANGED <<ServiceListenerFactories, registered>>
    /\ UNCHANGED callFrame

InitConc ==
    /\ InitRegistry
    /\ IdleListeners
    /\ IdleTitle
    /\ pc = [p \in Goroutines |-> IF p = Ranger THEN "idle" ELSE "nilcheck"]
    /\ arg \in [Registrars -> Names \X Factories]
    /\ registered = [p \in Registrars |-> FALSE]
    /\ access = [p \in Goroutines |-> "none"]
    /\ dirty = [p \in Goroutines |-> FALSE]
    /\ seen = {}
    /\ crashed = FALSE

NextConc ==
    \/ \E p \in Registrars : NilCheck(p)
    \/ \E p \in Registrars : LookupBegin(p)
    \/ \E p \in Registrars : LookupEnd(p)
    \/ \E p \in Registrars : StoreBegin(p)
    \/ \E p \in Registrars : StoreEnd(p)
    \/ RangeBegin
    \/ RangeEnd

SpecConc == InitConc /\ [][NextConc]_vars

\* C3: concurrent Register calls, and Register concurrent with a range over
\* the registry, are safe: no two accesses of the map overlap with one of
\* them a write, the runtime never aborts, and once Register calls on
\* distinct names have all returned each name maps to its own factory.
C3_ConcurrentRegisterSafe ==
    /\ \A p, q \in Goroutines : p # q => ~Conflict(access[p], access[q])
    /\ ~crashed
    /\ ( /\ \A p \in Registrars : pc[p] = "done"
         /\ \A p, q \in Registrars : p # q => arg[p][1] # arg[q][1] )
       => \A p \in Registrars :
             /\ arg[p][1] \in DOMAIN ServiceListenerFactories
             /\ ServiceListenerFactories[arg[p][1]] = arg[p][2]

---------------------------------------------------------------------------
(* ServiceListener: src/unnamed/part_000, 36-43, declares only the         *)
(* interface (Listen, Stop) and says that a listener "holds a cache of     *)
(* running services, listens to new/killed services and updates its        *)
(* cache".  The listener below is the lifecycle the specification          *)
(* describes: a worker goroutine started by Listen, a cache that decides   *)
(* which events are pushed, sends that select on the stop signal, and a    *)
(* Stop that waits for the worker.                                         *)

\* The two backends of the specification's scenario.
Listeners == {"a", "b"}

\* The service ID each backend reports; IDs are globally unique.
IDsOf(lsn) == IF lsn = "a" THEN {"a-1"} ELSE {"b-1"}

NoEvent == <<>>

\* What a listener step leaves alone.
lsnFrame == <<regVars, concVars, titleVars>>

\* Variant of Listen: no check of the lifecycle state.
ListenUnguarded(lsn) ==
    /\ starts[lsn] < MaxStarts
    /\ lstate' = [lstate EXCEPT ![lsn] = "listening"]
    /\ wpc' = [wpc EXCEPT ![lsn] = "watch"]
    /\ starts' = [starts EXCEPT ![lsn] = @ + 1]
    /\ stopReq' = [stopReq EXCEPT ![lsn] = FALSE]
    /\ UNCHANGED <<cache, pending, rejected, newSvc, delSvc, draining, pushed>>
    /\ UNCHANGED lsnFrame

\* Listen(newSvc, delSvc): starts the discovery worker of a constructed
\* listener and returns; any later call is refused with an error.
Listen(lsn) ==
    /\ IF lstate[lsn] = "constructed"
       THEN /\ lstate' = [lstate EXCEPT ![lsn] = "listening"]
            /\ wpc' = [wpc EXCEPT ![lsn] = "watch"]
            /\ starts' = [starts EXCEPT ![lsn] = @ + 1]
            /\ UNCHANGED rejected
       ELSE /\ rejected' = <<lsn, lstate[lsn]>>
            /\ UNCHANGED <<lstate, wpc, starts>>
    /\ UNCHANGED <<cache, pending, stopReq, newSvc, delSvc, draining, pushed>>
    /\ UNCHANGED lsnFrame

\* Variant of DetectNew: the cache is not consulted.
DetectNewUncached(lsn, id) ==
    /\ wpc[lsn] = "watch"
    /\ Len(pushed) < MaxEvents
    /\ cache' = [cache EXCEPT ![lsn] = @ \cup {id}]
    /\ pending' = [pending EXCEPT ![lsn] = <<"add", id>>]
    /\ wpc' = [wpc EXCEPT ![lsn] = "send"]
    /\ UNCHANGED <<lstate, stopReq, starts, rejected, newSvc, delSvc, draining, pushed>>
    /\ UNCHANGED lsnFrame

\* The worker sees a service of its backend that is not in its cache: it
\* caches it and goes on to push it on the add channel.
DetectNew(lsn, id) ==
    /\ wpc[lsn] = "watch"
    /\ id \notin cache[lsn]
    /\ Len(pushed) < MaxEvents
    /\ cache' = [cache EXCEPT ![lsn] = @ \cup {id}]
    /\ pending' = [pending EXCEPT ![lsn] = <<"add", id>>]
    /\ wpc' = [wpc EXCEPT ![lsn] = "send"]
    /\ UNCHANGED <<lstate, stopReq, starts, rejected, newSvc, delSvc, draining, pushed>>
    /\ UNCHANGED lsnFrame

\* The worker sees that a cached service is gone: it drops it from the cache
\* and goes on to push it on the delete channel.
DetectGone(lsn, id) ==
    /\ wpc[lsn] = "watch"
    /\ id \in cache[lsn]
    /\ Len(pushed) < MaxEvents
    /\ cache' = [cache EXCEPT ![lsn] = @ \ {id}]
    /\ pending' = [pending EXCEPT ![lsn] = <<"del", id>>]
    /\ wpc' = [wpc EXCEPT ![lsn] = "send"]
    /\ UNCHANGED <<lstate, stopReq, starts, rejected, newSvc, delSvc, draining, pushed>>
    /\ UNCHANGED lsnFrame

\* The pending event is sent: the send completes only while the channel has
\* room, otherwise the worker stays suspended (backpressure).
Send(lsn) ==
    /\ wpc[lsn] = "send"
    /\ Len(pushed) < MaxEvents
    /\ IF pending[lsn][1] = "add"
       THEN /\ Len(newSvc) < ChanCap
            /\ newSvc' = Append(newSvc, pending[lsn][2])
            /\ UNCHANGED delSvc
       ELSE /\ Len(delSvc) < ChanCap
            /\ delSvc' = Append(delSvc, pending[lsn][2])
            /\ UNCHANGED newSvc
    /\ pushed' = Append(pushed, pending[lsn])
    /\ pending' = [pending EXCEPT ![lsn] = NoEvent]
    /\ wpc' = [wpc EXCEPT ![lsn] = "watch"]
    /\ UNCHANGED <<lstate, cache, stopReq, starts, rejected, draining>>
    /\ UNCHANGED lsnFrame

\* Variant of WorkerStop: the stop signal is seen only between two sends
\* (a bare channel send instead of a select).
WorkerStopBetweenSends(lsn) ==
    /\ stopReq[lsn]
    /\ wpc[lsn] = "watch"
    /\ wpc' = [wpc EXCEPT ![lsn] = "exited"]
    /\ UNCHANGED <<lstate, cache, pending, stopReq, starts, rejected,
                   newSvc, delSvc, draining, pushed>>
    /\ UNCHANGED lsnFrame

\* The worker sees the stop signal, while watching or while suspended in a
\* send, and exits; an event it had not sent yet is dropped.
WorkerStop(lsn) ==
    /\ stopReq[lsn]
    /\ wpc[lsn] \in {"watch", "send"}
    /\ wpc' = [wpc EXCEPT ![lsn] = "exited"]
    /\ UNCHANGED <<lstate, cache, pending, stopReq, starts, rejected,
                   newSvc, delSvc, draining, pushed>>
    /\ UNCHANGED lsnFrame

\* Stop() is called on a listening listener: it signals the worker.
StopCall(lsn) ==
    /\ lstate[lsn] = "listening"
    /\ ~stopReq[lsn]
    /\ stopReq' = [stopReq EXCEPT ![lsn] = TRUE]
    /\ UNCHANGED <<lstate, wpc, cache, pending, starts, rejected,
                   newSvc, delSvc, draining, pushed>>
    /\ UNCHANGED lsnFrame

\* Variant of StopReturn: Stop returns without waiting for the worker.
StopReturnNoWait(lsn) ==
    /\ stopReq[lsn]
    /\ lstate[lsn] = "listening"
    /\ lstate' = [lstate EXCEPT ![lsn] = "stopped"]
    /\ stopReq' = [stopReq EXCEPT ![lsn] = FALSE]
    /\ UNCHANGED <<wpc, cache, pending, starts, rejected,
                   newSvc, delSvc, draining, pushed>>
    /\ UNCHANGED lsnFrame

\* Stop() returns once the worker has exited.
StopReturn(lsn) ==
    /\ stopReq[lsn]
    /\ lstate[lsn] = "listening"
    /\ wpc[lsn] = "exited"
    /\ lstate' = [lstate EXCEPT ![lsn] = "stopped"]
    /\ stopReq' = [stopReq EXCEPT ![lsn] = FALSE]
    /\ UNCHANGED <<wpc, cache, pending, starts, rejected,
                   newSvc, delSvc, draining, pushed>>
    /\ UNCHANGED lsnFrame

\* The consumer receives one service from the add channel.
RecvNew ==
    /\ draining
    /\ newSvc # <<>>
    /\ newSvc' = Tail(newSvc)
    /\ UNCHANGED <<lstate, wpc, cache, pending, stopReq, starts, rejected,
                   delSvc, draining, pushed>>
    /\ UNCHANGED lsnFrame

\* The consumer receives one service from the delete channel.
RecvDel ==
    /\ draining
    /\ delSvc # <<>>
    /\ delSvc' = Tail(delSvc)
    /\ UNCHANGED <<lstate, wpc, cache, pending, stopReq, starts, rejected,
                   newSvc, draining, pushed>>
    /\ UNCHANGED lsnFrame

\* The consumer stops receiving.
ConsumerQuit ==
    /\ draining
    /\ draining' = FALSE
    /\ UNCHANGED <<lstate, wpc, cache, pending, stopReq, starts, rejected,
                   newSvc, delSvc, pushed>>
    /\ UNCHANGED lsnFrame

InitListener ==
    /\ InitRegistry
    /\ IdleConc
    /\ IdleTitle
    /\ lstate = [lsn \in Listeners |-> "constructed"]
    /\ wpc = [lsn \in Listeners |-> "none"]
    /\ cache = [lsn \in Listeners |-> {}]
    /\ pending = [lsn \in Listeners |-> NoEvent]
    /\ stopReq = [lsn \in Listeners |-> FALSE]
    /\ starts = [lsn \in Listeners |-> 0]
    /\ rejected = <<>>
    /\ newSvc = <<>>
    /\ delSvc = <<>>
    /\ draining = TRUE
    /\ pushed = <<>>

NextListener ==
    \/ \E lsn \in Listeners : Listen(lsn)
    \/ \E lsn \in Listeners : \E id \in IDsOf(lsn) : DetectNew(lsn, id)
    \/ \E lsn \in Listeners : \E id \in IDsOf(lsn) : DetectGone(lsn, id)
    \/ \E lsn \in Listeners : Send(lsn)
    \/ \E lsn \in Listeners : WorkerStop(lsn)
    \/ \E lsn \in Listeners : StopCall(lsn)
    \/ \E lsn \in Listeners : StopReturn(lsn)
    \/ RecvNew
    \/ RecvDel
    \/ ConsumerQuit

SpecListener == InitListener /\ [][NextListener]_vars

\* The Go scheduler runs every runnable goroutine: a worker whose stop signal
\* is ready takes it, and a Stop whose worker has exited returns.
FairSpecListener ==
    /\ SpecListener
    /\ \A lsn \in Listeners : WF_vars(WorkerStop(lsn)) /\ WF_vars(StopReturn(lsn))

---------------------------------------------------------------------------
(* formatTitle: src/cmd/gui/render.go, 222-241.  A Go string is a sequence *)
(* of bytes; s[1:] and s[:l] cut at byte positions while strings.IndexFunc *)
(* decodes UTF-8 runes, so the model keeps the two apart.                  *)

\* The bytes titles are made of: two lower-case ASCII letters, an upper-case
\* ASCII letter, and the lead byte "L" and continuation byte "T" of a
\* two-byte upper-case letter (such as U+00C9).
Bytes == {"o", "s", "B", "L", "T"}

\* The rune utf8.DecodeRuneInString finds at position i (1-based) of str: a
\* lead byte without its continuation byte, or a continuation byte alone,
\* decodes to RuneError with width 1.
DecodeRune(str, i) ==
    IF str[i] = "L" /\ i < Len(str) /\ str[i + 1] = "T"
    THEN [rune |-> "LT", width |-> 2]
    ELSE IF str[i] \in {"L", "T"}
         THEN [rune |-> "RuneError", width |-> 1]
         ELSE [rune |-> str[i], width |-> 1]

\* unicode.IsUpper
IsUpper(rune) == rune \in {"B", "LT", "O", "S"}

RECURSIVE IndexFuncFrom(_, _)
\* The scan of strings.IndexFunc(str, unicode.IsUpper) from position i.
IndexFuncFrom(str, i) ==
    IF i > Len(str)
    THEN -1
    ELSE LET r == DecodeRune(str, i)
         IN  IF IsUpper(r.rune) THEN i - 1 ELSE IndexFuncFrom(str, i + r.width)

\* strings.IndexFunc(str, unicode.IsUpper): the byte index (0-based) of the
\* first upper-case rune, or -1.
IndexFunc(str) == IndexFuncFrom(str, 1)

\* s[from:] and s[:to] on bytes (0-based Go bounds).
SliceFrom(str, from) == SubSeq(str, from + 1, Len(str))
SliceTo(str, to) == SubSeq(str, 1, to)

\* Variant of StepLen: the test is l < 0 instead of l <= 0.
StepLenStrictTest(str) ==
    LET i == IndexFunc(SliceFrom(str, 1)) + 1
    IN  IF i < 0 THEN Len(str) ELSE i

\* Lines 231-234: the length of the next word of a non-empty s.
StepLen(str) ==
    LET i == IndexFunc(SliceFrom(str, 1)) + 1
    IN  IF i <= 0 THEN Len(str) ELSE i

RECURSIVE JoinWords(_)
\* strings.Join(words, " ")
JoinWords(ws) ==
    IF ws = <<>> THEN <<>>
    ELSE IF Len(ws) = 1 THEN ws[1]
    ELSE ws[1] \o <<" ">> \o JoinWords(Tail(ws))

\* unicode.ToTitle on the runes of the model.
ToTitle(rune) ==
    IF rune = "o" THEN "O" ELSE IF rune = "s" THEN "S" ELSE rune

\* The bytes strings.Map writes for a rune: RuneError is written as U+FFFD,
\* here the single token "R".
EncodeRune(rune) ==
    IF rune = "LT" THEN <<"L", "T">>
    ELSE IF rune = "RuneError" THEN <<"R">>
    ELSE <<rune>>

RECURSIVE TitleFrom(_, _, _)
\* strings.Title from position i, prevSep telling whether the previous rune
\* was a separator (only the space is one among the runes of the model).
TitleFrom(str, i, prevSep) ==
    IF i > Len(str)
    THEN <<>>
    ELSE LET r == DecodeRune(str, i)
             out == IF prevSep THEN ToTitle(r.rune) ELSE r.rune
         IN  EncodeRune(out) \o TitleFrom(str, i + r.width, r.rune = " ")

\* strings.Title(str)
Title(str) == TitleFrom(str, 1, TRUE)

\* What a step of formatTitle leaves alone.
titleFrame == <<regVars, concVars, lsnVars>>

\* Lines 223-225: the title "os" is returned as "OS".
ReturnOS ==
    /\ tpc = "start"
    /\ title = <<"o", "s">>
    /\ result' = <<"O", "S">>
    /\ tpc' = "done"
    /\ UNCHANGED <<title, s, l, words>>
    /\ UNCHANGED titleFrame

\* Lines 228-230: var words, l := 0, s := title.
LoopInit ==
    /\ tpc = "start"
    /\ title # <<"o", "s">>
    /\ words' = <<>>
    /\ l' = 0
    /\ s' = title
    /\ tpc' = "test"
    /\ UNCHANGED <<title, result>>
    /\ UNCHANGED titleFrame

\* Line 230: the loop condition s != "".
LoopTest ==
    /\ tpc = "test"
    /\ tpc' = IF s # <<>> THEN "body" ELSE "join"
    /\ UNCHANGED <<title, s, l, words, result>>
    /\ UNCHANGED titleFrame

\* Lines 231-235: the loop body.
LoopBody ==
    /\ tpc = "body"
    /\ l' = StepLen(s)
    /\ words' = Append(words, SliceTo(s, l'))
    /\ tpc' = "post"
    /\ UNCHANGED <<title, s, result>>
    /\ UNCHANGED titleFrame

\* Line 230: the post statement s = s[l:].
LoopPost ==
    /\ tpc = "post"
    /\ s' = SliceFrom(s, l)
    /\ tpc' = "test"
    /\ UNCHANGED <<title, l, words, result>>
    /\ UNCHANGED titleFrame

\* Lines 237-240: join the words and capitalize.
JoinAndTitle ==
    /\ tpc = "join"
    /\ result' = Title(JoinWords(words))
    /\ tpc' = "done"
    /\ UNCHANGED <<title, s, l, words>>
    /\ UNCHANGED titleFrame

RECURSIVE StringsUpTo(_)
\* Every byte string of at most n bytes.
StringsUpTo(n) ==
    IF n = 0 THEN {<<>>}
    ELSE LET shorter == StringsUpTo(n - 1)
         IN  shorter \cup {Append(str, b) : str \in shorter, b \in Bytes}

InitTitle ==
    /\ InitRegistry
    /\ IdleConc
    /\ IdleListeners
    /\ title \in StringsUpTo(MaxLen)
    /\ s = <<>>
    /\ l = 0
    /\ words = <<>>
    /\ tpc = "start"
    /\ result = <<>>

NextTitle ==
    \/ ReturnOS
    \/ LoopInit
    \/ LoopTest
    \/ LoopBody
    \/ LoopPost
    \/ JoinAndTitle

SpecTitle == InitTitle /\ [][NextTitle]_vars

RECURSIVE Flatten(_)
\* The concatenation of a sequence of byte strings.
Flatten(ws) == IF ws = <<>> THEN <<>> ELSE ws[1] \o Flatten(Tail(ws))

\* C10: the splitting loop of formatTitle terminates and loses nothing: each
\* step length l computed for a non-empty remainder s has 1 <= l <= len(s), the
\* loop runs at most len(title) times, the words so far followed by the
\* remainder are the title, and when the loop is left the words concatenate
\* to the title.
C10_SplitTerminatesAndPreserves ==
    /\ tpc = "post" =>
          /\ 1 <= l /\ l <= Len(s)
          /\ Flatten(words) \o SliceFrom(s, l) = title
    /\ tpc \in {"test", "body"} => Flatten(words) \o s = title
    /\ tpc \in {"join", "done"} /\ title # <<"o", "s">> => Flatten(words) = title
    /\ Len(words) <= Len(title)
    /\ \A i \in 1..Len(words) : words[i] # <<>>

\* The loop was left after splitting a title before an upper-case letter that
\* follows a byte which is no complete rune.
C10_Witness ==
    /\ tpc = "done"
    /\ Len(words) >= 2
    /\ \E i \in 1..Len(words) : words[i][1] = "L" /\ Len(words[i]) >= 2
    /\ \E i \in 1..Len(title) : DecodeRune(title, i).rune = "RuneError"

---------------------------------------------------------------------------
(* Claims about the listener lifecycle *)

\* The listener an ID belongs to.
OwnerOf(id) == CHOOSE lsn \in Listeners : id \in IDsOf(lsn)

\* How many of the first n events of log are the event e.
CountBefore(log, n, e) == Cardinality({j \in 1..n : log[j] = e})

\* How many events of log were pushed by listener lsn.
PushesOf(lsn, log) == Cardinality({j \in 1..Len(log) : log[j][2] \in IDsOf(lsn)})

\* C4: in the sequence of pushed events, an ID is added only when its adds
\* and deletes so far are equal in number, and deleted only when it has one
\* more add than deletes: an add precedes the first delete of an ID, and no ID
\* is added twice without a delete in between, also with both listeners
\* running and their events interleaved.
C4_AddBeforeDelete ==
    \A i \in 1..Len(pushed) :
        LET id   == pushed[i][2]
            adds == CountBefore(pushed, i - 1, <<"add", id>>)
            dels == CountBefore(pushed, i - 1, <<"del", id>>)
        IN  IF pushed[i][1] = "add" THEN adds = dels ELSE adds = dels + 1

\* An ID was added and later deleted, with an event of the other listener
\* pushed in between.
C4_Witness ==
    \E i, j, k \in 1..Len(pushed) :
        /\ i < j /\ j < k
        /\ pushed[i][1] = "add"
        /\ pushed[k] = <<"del", pushed[i][2]>>
        /\ OwnerOf(pushed[j][2]) # OwnerOf(pushed[i][2])

\* C5: a listener whose Stop has returned pushes nothing any more, on either
\* channel.
C5_SilentAfterStop ==
    [][\A lsn \in Listeners :
          lstate[lsn] = "stopped" => PushesOf(lsn, pushed') = PushesOf(lsn, pushed)]_vars

\* Stop returned for a listener that had an event still to send, while the
\* channels have room and the history is not full.
C5_Witness ==
    \E lsn \in Listeners :
        /\ lstate[lsn] = "stopped"
        /\ pending[lsn] # NoEvent
        /\ newSvc = <<>> /\ delSvc = <<>>
        /\ Len(pushed) < MaxEvents

---------------------------------------------------------------------------
(* Claims about the registry, checked under Spec *)

\* C1: Register with a nil factory adds no entry: the keys after the call are
\* the keys before it, and no key of the registry ever maps to a nil factory.
C1_NilRegisterIsNoOp ==
    /\ (lastOp.op = "Register" /\ lastOp.factory = NilFactory)
           => DOMAIN ServiceListenerFactories = keysBefore
    /\ \A n \in DOMAIN ServiceListenerFactories :
           ServiceListenerFactories[n] # NilFactory

\* C2: for every name, the factory stored under it is the factory of the most
\* recent Register call for it that passed a non-nil factory.
C2_LastRegistrationWins ==
    \A n \in Names :
        lastFactory[n] # NoFactory =>
            /\ n \in DOMAIN ServiceListenerFactories
            /\ ServiceListenerFactories[n] = lastFactory[n]

\* C8: a name that is a key of the registry stays a key in every later
\* state, whatever names and factories (nil included) are registered.
C8_KeysNeverRemoved ==
    [][DOMAIN ServiceListenerFactories \subseteq DOMAIN ServiceListenerFactories']_vars

\* A registered name was registered again with a nil factory and is still a key.
C8_Witness ==
    /\ lastOp.op = "Register"
    /\ lastOp.factory = NilFactory
    /\ lastOp.name \in keysBefore
    /\ lastOp.name \in DOMAIN ServiceListenerFactories

\* C9: a Register call leaves every other name's entry as it was (presence
\* and factory) and invokes no factory.
C9_RegisterFrame ==
    [][lastOp'.op = "Register" =>
         /\ \A n \in Names \ {lastOp'.name} :
               /\ (n \in DOMAIN ServiceListenerFactories')
                     <=> (n \in DOMAIN ServiceListenerFactories)
               /\ n \in DOMAIN ServiceListenerFactories =>
                     ServiceListenerFactories'[n] = ServiceListenerFactories[n]
         /\ invocations' = invocations
         /\ panicked' = panicked]_vars

\* Register ran while another name was registered, after a factory had been
\* invoked.
C9_Witness ==
    /\ lastOp.op = "Register"
    /\ keysBefore \ {lastOp.name} # {}
    /\ invocations > 0

=============================================================================
